---- MODULE Spec2Model ----
(***************************************************************************)
(* Model of ContextVectorManager (src/supply.js): the memory store of      *)
(* indexed conversation turns, its three vectorization backends, the       *)
(* retriever, the context assembler and the IndexedDB persistence.         *)
(*                                                                         *)
(* A text is a sequence of characters, each character a one-element        *)
(* string.  A similarity is kept exact as the pair (num, den2) that stands *)
(* for num / sqrt(den2); floating-point rounding is not modelled.          *)
(***************************************************************************)
EXTENDS Integers, Sequences, FiniteSets, Bags, TLC

(***************************************************************************)
(* Characters and texts                                                    *)
(***************************************************************************)
LatinChars ==
    {"a", "b", "c", "d", "e", "f", "h", "i", "n", "o", "r", "s", "t", "u", "w", "y"}

\* two ideographs of the range 一-龥, written by code point
CJKChars == {"U+5C71", "U+6D1E"}

CharKind(c) ==
    IF c \in CJKChars THEN "cjk" ELSE IF c \in LatinChars THEN "latin" ELSE "other"

SP == <<" ">>
NL == <<"\n">>

\* text.substring(0, n)
Substring(text, n) ==
    IF Len(text) <= n THEN text ELSE SubSeq(text, 1, n)

(***************************************************************************)
(* extractKeywords / createKeywordVector                                   *)
(***************************************************************************)
TopKeywords == 20
SummaryKeywords == 5
PreviewLen == 50

\* text.match(/[一-龥]+|[a-zA-Z]+/g) || []: the maximal runs of ideographs and of
\* letters, from left to right
MatchWords(text) ==
    LET n         == Len(text)
        kind(i)   == CharKind(text[i])
        starts    == {i \in 1..n : /\ kind(i) # "other"
                                   /\ (i = 1 \/ kind(i - 1) # kind(i))}
        EndOf(s)  == CHOOSE e \in s..n :
                        /\ \A j \in s..e : kind(j) = kind(s)
                        /\ (e = n \/ kind(e + 1) # kind(s))
        StartAt(k) == CHOOSE s \in starts : Cardinality({t \in starts : t <= s}) = k
    IN  [k \in 1..Cardinality(starts) |-> SubSeq(text, StartAt(k), EndOf(StartAt(k)))]

\* the insertion order of wordFreq: words longer than one character, by first occurrence
RECURSIVE FreqKeys(_, _, _)
FreqKeys(words, i, acc) ==
    IF i > Len(words) THEN acc
    ELSE FreqKeys(words, i + 1,
                  IF Len(words[i]) > 1 /\ \A j \in 1..Len(acc) : acc[j] # words[i]
                  THEN Append(acc, words[i]) ELSE acc)

WordCount(words, w) == Cardinality({i \in 1..Len(words) : words[i] = w})

\* wordFreq is a plain object: for a word that names a property of
\* Object.prototype the first wordFreq[word] is a function, not undefined.
\* "constructor" stands for these names (toString, valueOf, ...).
W_constructor == <<"c", "o", "n", "s", "t", "r", "u", "c", "t", "o", "r">>
InheritedNames == {W_constructor}

\* stands for a value that is not a number: an inherited function, or the
\* string that (function || 0) + 1 builds
NonNumber == 0 - 1

\* wordFreq[word] after the forEach
WordFreq_Counted(words, w) == WordCount(words, w)
WordFreq(words, w) == IF w \in InheritedNames THEN NonNumber ELSE WordCount(words, w)

\* Array.prototype.sort with (a, b) => b[1] - a[1]: stable, descending by
\* weight; a difference that is NaN counts as 0
RECURSIVE InsertByWeight(_, _)
InsertByWeight(sorted, e) ==
    IF sorted = <<>> THEN <<e>>
    ELSE IF \/ sorted[Len(sorted)].weight = NonNumber
            \/ e.weight = NonNumber
            \/ sorted[Len(sorted)].weight >= e.weight
         THEN Append(sorted, e)
         ELSE Append(InsertByWeight(SubSeq(sorted, 1, Len(sorted) - 1), e),
                     sorted[Len(sorted)])

RECURSIVE SortByWeight(_, _, _)
SortByWeight(entries, i, acc) ==
    IF i > Len(entries) THEN acc
    ELSE SortByWeight(entries, i + 1, InsertByWeight(acc, entries[i]))

extractKeywords(text) ==
    LET words   == MatchWords(text)
        keys    == FreqKeys(words, 1, <<>>)
        entries == [i \in 1..Len(keys) |->
                        [word |-> keys[i], weight |-> WordFreq(words, keys[i])]]
        sorted  == SortByWeight(entries, 1, <<>>)
    IN  Substring(sorted, TopKeywords)

\* the sparse vector as a function from its keys to their weights
createKeywordMap(text) ==
    LET kws == extractKeywords(text) IN
    [w \in {kws[i].word : i \in 1..Len(kws)} |->
        kws[CHOOSE i \in 1..Len(kws) : kws[i].word = w].weight]

(***************************************************************************)
(* Vector values.  rep is what JavaScript sees: "object" for a plain       *)
(* mapping, "array" for a numeric sequence, "number" for a truthy scalar,  *)
(* "undefined" for an absent value.                                         *)
(***************************************************************************)
NoMap == [w \in {} |-> 0]

ObjectVec(m) == [rep |-> "object", map |-> m, arr |-> <<>>]
ArrayVec(s)  == [rep |-> "array", map |-> NoMap, arr |-> s]
NumberVec    == [rep |-> "number", map |-> NoMap, arr |-> <<>>]
UndefinedVec == [rep |-> "undefined", map |-> NoMap, arr |-> <<>>]

createKeywordVector(text) == ObjectVec(createKeywordMap(text))

\* Object.keys(v)
ObjectKeys(v) == IF v.rep = "object" THEN DOMAIN v.map ELSE {}

\* v[key] || 0: an own weight, else an inherited property, else 0
WeightAt(v, key) ==
    IF key \in ObjectKeys(v) THEN v.map[key]
    ELSE IF key \in InheritedNames THEN NonNumber ELSE 0

(***************************************************************************)
(* calculateCosineSimilarity                                               *)
(***************************************************************************)
RECURSIVE SumOver(_, _)
SumOver(S, f) ==
    IF S = {} THEN 0
    ELSE LET x == CHOOSE y \in S : TRUE IN f[x] + SumOver(S \ {x}, f)

ZeroSim == [num |-> 0, den2 |-> 1]

\* NaN: what arithmetic on a value that is not a number gives
NaNSim == [num |-> 0, den2 |-> 0 - 1]

IsNaN(x) == x.den2 < 0

calculateObjectCosineSimilarity(vec1, vec2) ==
    LET allKeys    == ObjectKeys(vec1) \cup ObjectKeys(vec2)
        dotProduct == SumOver(allKeys, [k \in allKeys |-> WeightAt(vec1, k) * WeightAt(vec2, k)])
        norm1      == SumOver(allKeys, [k \in allKeys |-> WeightAt(vec1, k) * WeightAt(vec1, k)])
        norm2      == SumOver(allKeys, [k \in allKeys |-> WeightAt(vec2, k) * WeightAt(vec2, k)])
    IN  IF \E k \in allKeys : WeightAt(vec1, k) = NonNumber \/ WeightAt(vec2, k) = NonNumber
        THEN NaNSim
        ELSE IF norm1 = 0 \/ norm2 = 0 THEN ZeroSim
        ELSE [num |-> dotProduct, den2 |-> norm1 * norm2]

Min(a, b) == IF a <= b THEN a ELSE b

\* the norm of the second vector taken over all of its components
calculateArrayCosineSimilarity_FullNorm(vec1, vec2) ==
    LET len        == Min(Len(vec1.arr), Len(vec2.arr))
        idx        == 1..len
        all2       == 1..Len(vec2.arr)
        dotProduct == SumOver(idx, [i \in idx |-> vec1.arr[i] * vec2.arr[i]])
        norm1      == SumOver(idx, [i \in idx |-> vec1.arr[i] * vec1.arr[i]])
        norm2      == SumOver(all2, [i \in all2 |-> vec2.arr[i] * vec2.arr[i]])
    IN  IF norm1 = 0 \/ norm2 = 0 THEN ZeroSim
        ELSE [num |-> dotProduct, den2 |-> norm1 * norm2]

calculateArrayCosineSimilarity(vec1, vec2) ==
    LET len        == Min(Len(vec1.arr), Len(vec2.arr))
        idx        == 1..len
        dotProduct == SumOver(idx, [i \in idx |-> vec1.arr[i] * vec2.arr[i]])
        norm1      == SumOver(idx, [i \in idx |-> vec1.arr[i] * vec1.arr[i]])
        norm2      == SumOver(idx, [i \in idx |-> vec2.arr[i] * vec2.arr[i]])
    IN  IF norm1 = 0 \/ norm2 = 0 THEN ZeroSim
        ELSE [num |-> dotProduct, den2 |-> norm1 * norm2]

\* !v
Falsy(v) == v.rep = "undefined"

IsArray(v) == v.rep = "array"

\* Object.keys(undefined) raises a TypeError: no number is returned
RaisedSim == [num |-> 0, den2 |-> 0]

\* the guard written with && : one absent argument reaches Object.keys
calculateCosineSimilarity_BothAbsent(vec1, vec2) ==
    IF Falsy(vec1) /\ Falsy(vec2) THEN ZeroSim
    ELSE IF IsArray(vec1) # IsArray(vec2) THEN ZeroSim
    ELSE IF IsArray(vec1) /\ IsArray(vec2)
         THEN calculateArrayCosineSimilarity(vec1, vec2)
         ELSE IF Falsy(vec1) \/ Falsy(vec2) THEN RaisedSim
              ELSE calculateObjectCosineSimilarity(vec1, vec2)

calculateCosineSimilarity(vec1, vec2) ==
    IF Falsy(vec1) \/ Falsy(vec2) THEN ZeroSim
    ELSE IF IsArray(vec1) # IsArray(vec2) THEN ZeroSim
    ELSE IF IsArray(vec1) /\ IsArray(vec2)
         THEN calculateArrayCosineSimilarity(vec1, vec2)
         ELSE calculateObjectCosineSimilarity(vec1, vec2)

\* the order of similarities: x = num / sqrt(den2) is monotone in sign(num) * num^2 / den2
SignedSq(n) == IF n >= 0 THEN n * n ELSE 0 - (n * n)

\* a comparison with NaN is false
SimGeq(x, y) ==
    /\ ~IsNaN(x) /\ ~IsNaN(y)
    /\ SignedSq(x.num) * y.den2 >= SignedSq(y.num) * x.den2

SimGt(x, y) ==
    /\ ~IsNaN(x) /\ ~IsNaN(y)
    /\ SignedSq(x.num) * y.den2 > SignedSq(y.num) * x.den2

\* a threshold p / q as a similarity value
Ratio(p, q) == [num |-> p, den2 |-> q * q]


(***************************************************************************)
(* Inputs                                                                  *)
(***************************************************************************)
W_the    == <<"t", "h", "e">>
W_hero   == <<"h", "e", "r", "o">>
W_enters == <<"e", "n", "t", "e", "r", "s">>
W_forest == <<"f", "o", "r", "e", "s", "t">>
W_buys   == <<"b", "u", "y", "s">>
W_a      == <<"a">>
W_sword  == <<"s", "w", "o", "r", "d">>
W_in     == <<"i", "n">>
W_town   == <<"t", "o", "w", "n">>
W_cave   == <<"U+5C71", "U+6D1E">>

\* "the hero enters the forest"
TextForest == W_the \o SP \o W_hero \o SP \o W_enters \o SP \o W_the \o SP \o W_forest
\* "the hero buys a sword in town"
TextTown == W_the \o SP \o W_hero \o SP \o W_buys \o SP \o W_a \o SP \o W_sword
            \o SP \o W_in \o SP \o W_town
\* "1 2": a non-empty text without any term
TextDigits == <<"1", " ", "2">>
\* "hero in the forest"
TextQuery == W_hero \o SP \o W_in \o SP \o W_the \o SP \o W_forest
\* "山洞in": an ideograph run directly followed by a Latin run
TextCave == W_cave \o W_in

TurnIndexes == {1, 2}

UndefinedVars ==
    [defined |-> FALSE, location |-> <<>>, realm |-> 0, hp |-> 0, mp |-> 0,
     items |-> <<>>, relationships |-> <<>>]
VarsCave ==
    [defined |-> TRUE, location |-> W_cave, realm |-> 1, hp |-> 90, mp |-> 40,
     items |-> <<W_sword>>, relationships |-> <<>>]
VarsNowhere ==
    [defined |-> TRUE, location |-> <<>>, realm |-> 2, hp |-> 50, mp |-> 10,
     items |-> <<>>, relationships |-> <<>>]


Call(turnIndex, userMessage, aiResponse, variables) ==
    [turnIndex |-> turnIndex, userMessage |-> userMessage,
     aiResponse |-> aiResponse, variables |-> variables]

\* the arguments of the addConversation calls of concurrent callers
Calls ==
    {Call(1, TextForest, TextTown, VarsCave),
     Call(1, TextDigits, <<"?">>, VarsNowhere),
     Call(2, TextTown, TextCave, VarsCave),
     Call(1, TextForest, TextTown, UndefinedVars)}

\* the embedding a working backend returns
DenseVectors == {<<3, 4>>}

\* the number of addConversation calls suspended at the same time
MaxTasks == 2
\* the store is not grown beyond this length
MaxStore == 2

(***************************************************************************)
(* State                                                                   *)
(***************************************************************************)
VARIABLES
    conversationEmbeddings,  \* this.conversationEmbeddings
    embeddingMethod,         \* this.embeddingMethod
    maxRetrieveCount,        \* this.maxRetrieveCount
    minSimilarityThreshold,  \* this.minSimilarityThreshold, as p / q
    embeddingPipeline,       \* this.embeddingPipeline is set
    transformers,            \* window.transformers is defined
    tasks,                   \* the addConversation calls suspended at an await
    lastAdd,                 \* the addConversation call that settled in the last step
    idb,                     \* the committed record 'main' of the object store
    txQueue,                 \* the IndexedDB transactions, in creation order
    savePc,                  \* where the saveToIndexedDB call is
    loadPc,                  \* where the loadFromIndexedDB call is
    lastPersist,             \* the saveToIndexedDB or loadFromIndexedDB call that returned last
    lastSave,                \* the last saveToIndexedDB call and how far it got
    retrieval,               \* what the last retrieveRelevantContext returned
    built,                   \* what the last buildOptimizedMessages returned
    similarity,              \* what the last calculateCosineSimilarity returned
    keywordVector,           \* what the last createKeywordVector returned
    batch                    \* the store before, and the turns of, the calls being followed

vars == <<conversationEmbeddings, embeddingMethod, maxRetrieveCount,
          minSimilarityThreshold, embeddingPipeline, transformers, tasks,
          lastAdd, idb, txQueue, savePc, loadPc, lastPersist, lastSave,
          retrieval, built, similarity, keywordVector, batch>>

(***************************************************************************)
(* extractSummary / extractImportantVariables                              *)
(***************************************************************************)
StrPlayer   == <<"U+73A9", "U+5BB6", "U+FF1A">>
StrKeywords == <<"U+5173", "U+952E", "U+8BCD", "U+FF1A">>
StrLocation == <<"U+5730", "U+70B9", "U+FF1A">>
StrComma    == <<"U+3001">>
StrBar      == <<" ", "|", " ">>
StrDots     == <<".", ".", ".">>

\* parts.join(sep)
RECURSIVE Join(_, _)
Join(parts, sep) ==
    IF parts = <<>> THEN <<>>
    ELSE IF Len(parts) = 1 THEN parts[1]
    ELSE parts[1] \o sep \o Join(Tail(parts), sep)

\* defined for defined variables only: variables.location raises on undefined
extractSummary(userMessage, aiResponse, variables) ==
    LET player   == IF Len(userMessage) < PreviewLen
                    THEN StrPlayer \o userMessage
                    ELSE StrPlayer \o Substring(userMessage, PreviewLen) \o StrDots
        keywords == extractKeywords(aiResponse)
        top      == Substring(keywords, SummaryKeywords)
        kwPart   == IF Len(keywords) > 0
                    THEN <<StrKeywords \o Join([i \in 1..Len(top) |-> top[i].word], StrComma)>>
                    ELSE <<>>
        locPart  == IF variables.location # <<>>
                    THEN <<StrLocation \o variables.location>>
                    ELSE <<>>
    IN  Join(<<player>> \o kwPart \o locPart, StrBar)

extractImportantVariables(variables) ==
    [location |-> variables.location, realm |-> variables.realm,
     hp |-> variables.hp, mp |-> variables.mp,
     hasNewItems |-> Len(variables.items) > 0,
     hasNewRelationships |-> Len(variables.relationships) > 0]

(***************************************************************************)
(* addConversation                                                         *)
(***************************************************************************)
CombinedText(userMessage, aiResponse) == userMessage \o NL \o aiResponse

\* findIndex(conv => conv.turnIndex === turnIndex): 0 stands for -1
FindIndex(store, turnIndex) ==
    IF \E i \in 1..Len(store) : store[i].turnIndex = turnIndex
    THEN CHOOSE i \in 1..Len(store) :
            /\ store[i].turnIndex = turnIndex
            /\ \A j \in 1..(i - 1) : store[j].turnIndex # turnIndex
    ELSE 0

\* splice(existingIndex, 1) when the index was found
RemoveExisting(store, turnIndex) ==
    LET existingIndex == FindIndex(store, turnIndex) IN
    IF existingIndex # 0
    THEN SubSeq(store, 1, existingIndex - 1) \o SubSeq(store, existingIndex + 1, Len(store))
    ELSE store

\* typeof v === 'object'
TypeofObject(v) == v.rep \in {"object", "array"}

\* Object.keys(v).length
KeyCount(v) ==
    IF v.rep = "array" THEN Len(v.arr)
    ELSE IF v.rep = "object" THEN Cardinality(DOMAIN v.map) ELSE 0

\* the check of line 165 and its fallback
ValidatedVector(vector, combinedText) ==
    IF \/ Falsy(vector)
       \/ (IsArray(vector) /\ Len(vector.arr) = 0)
       \/ (TypeofObject(vector) /\ KeyCount(vector) = 0)
    THEN createKeywordVector(combinedText)
    ELSE vector

\* the entry tagged without looking at the vector
NewEntry_AlwaysSparse(turnIndex, userMessage, aiResponse, variables, vector) ==
    [turnIndex   |-> turnIndex,
     userMessage |-> userMessage,
     aiResponse  |-> aiResponse,
     vector      |-> vector,
     vectorType  |-> "sparse",
     summary     |-> extractSummary(userMessage, aiResponse, variables),
     variables   |-> extractImportantVariables(variables)]

NewEntry(turnIndex, userMessage, aiResponse, variables, vector) ==
    [turnIndex   |-> turnIndex,
     userMessage |-> userMessage,
     aiResponse  |-> aiResponse,
     vector      |-> vector,
     vectorType  |-> IF IsArray(vector) THEN "dense" ELSE "sparse",
     summary     |-> extractSummary(userMessage, aiResponse, variables),
     variables   |-> extractImportantVariables(variables)]

NoAdd ==
    [settled |-> FALSE, raised |-> FALSE, turnIndex |-> 0, userMessage |-> <<>>,
     aiResponse |-> <<>>, variables |-> UndefinedVars, method |-> "none",
     failed |-> FALSE, alone |-> FALSE, sizeBefore |-> 0, present |-> FALSE]

\* a call as it is suspended: its arguments, the backend it took and the await
\* it is at
NewTask(pc, call, method) ==
    [pc |-> pc, turnIndex |-> call.turnIndex, userMessage |-> call.userMessage,
     aiResponse |-> call.aiResponse, variables |-> call.variables, method |-> method]

One(task) == SetToBag({task})

\* the other suspended calls
Others(task) == tasks (-) One(task)

KeywordOf(call) == createKeywordVector(CombinedText(call.userMessage, call.aiResponse))

\* lines 164-189 on the current store: validate the vector, extract the
\* summary (which raises on undefined variables, before the push), push.
\* failed: the backend did not deliver an embedding.  alone, sizeBefore and
\* present describe a call that nothing interleaved with.
Settle(store, call, method, rawVector, failed, alone, sizeBefore, present) ==
    LET vector == ValidatedVector(rawVector, CombinedText(call.userMessage, call.aiResponse))
        report == [settled |-> TRUE, raised |-> ~call.variables.defined,
                   turnIndex |-> call.turnIndex, userMessage |-> call.userMessage,
                   aiResponse |-> call.aiResponse, variables |-> call.variables,
                   method |-> method, failed |-> failed,
                   alone |-> alone, sizeBefore |-> sizeBefore, present |-> present]
    IN  /\ call.variables.defined => Len(store) < MaxStore
        /\ lastAdd' = report
        /\ conversationEmbeddings' =
              IF call.variables.defined
              THEN Append(store, NewEntry(call.turnIndex, call.userMessage,
                                          call.aiResponse, call.variables, vector))
              ELSE store

\* a suspended call resumes with the vector its backend returned
Resume(task, rawVector, failed) ==
    Settle(conversationEmbeddings, task, task.method, rawVector, failed, FALSE, 0, FALSE)

(***************************************************************************)
(* retrieveRelevantContext                                                 *)
(***************************************************************************)
\* an argument that may be missing: currentInput
Given(text) == [defined |-> TRUE, text |-> text]
Missing == [defined |-> FALSE, text |-> <<>>]

\* slice(0, n + 1): one element too many
SliceFirst_OneMore(seq, n) == SubSeq(seq, 1, Min(n + 1, Len(seq)))

\* array.slice(0, n)
SliceFirst(seq, n) ==
    IF n >= 0 THEN SubSeq(seq, 1, Min(n, Len(seq)))
    ELSE SubSeq(seq, 1, IF Len(seq) + n > 0 THEN Len(seq) + n ELSE 0)

\* item.similarity >= this.minSimilarityThreshold
MeetsThreshold(sim, threshold) == SimGeq(sim, Ratio(threshold.p, threshold.q))

\* the vector a stored turn is compared by: a dense vector is replaced by the
\* keyword vector of the turn's text
ComparedVector(conv) ==
    IF IsArray(conv.vector)
    THEN createKeywordVector(conv.userMessage \o NL \o conv.aiResponse)
    ELSE conv.vector

Similarities(store, currentVector) ==
    [i \in 1..Len(store) |->
        [index |-> i, turnIndex |-> store[i].turnIndex,
         similarity |-> calculateCosineSimilarity(currentVector, ComparedVector(store[i])),
         conversation |-> store[i]]]

\* items.filter(keep), for keep a set of positions
RECURSIVE FilterSeq(_, _, _)
FilterSeq(items, keep, i) ==
    IF i > Len(items) THEN <<>>
    ELSE (IF i \in keep THEN <<items[i]>> ELSE <<>>) \o FilterSeq(items, keep, i + 1)

\* the sort left out: the items stay in store order
InsertBySimilarity_Unsorted(sorted, e) == Append(sorted, e)

\* Array.prototype.sort with (a, b) => b.similarity - a.similarity: stable, descending
RECURSIVE InsertBySimilarity(_, _)
InsertBySimilarity(sorted, e) ==
    IF sorted = <<>> THEN <<e>>
    ELSE IF SimGeq(sorted[Len(sorted)].similarity, e.similarity)
         THEN Append(sorted, e)
         ELSE Append(InsertBySimilarity(SubSeq(sorted, 1, Len(sorted) - 1), e),
                     sorted[Len(sorted)])

RECURSIVE SortBySimilarity(_, _, _)
SortBySimilarity(items, i, acc) ==
    IF i > Len(items) THEN acc
    ELSE SortBySimilarity(items, i + 1, InsertBySimilarity(acc, items[i]))

\* lines 281-284: filter, sort, slice
RelevantConversations(similarities, threshold, maxCount) ==
    LET kept == FilterSeq(similarities,
                          {i \in 1..Len(similarities) :
                              MeetsThreshold(similarities[i].similarity, threshold)}, 1)
    IN  SliceFirst(SortBySimilarity(kept, 1, <<>>), maxCount)

Chunk(item) ==
    [turnIndex |-> item.turnIndex,
     userMessage |-> item.conversation.userMessage,
     aiResponse |-> item.conversation.aiResponse,
     similarity |-> item.similarity,
     summary |-> item.conversation.summary]

\* recentChunks replaced by an empty list
RetrievalResult_DropsRecent(relevantChunks, recentHistory) ==
    [relevantChunks |-> relevantChunks, recentChunks |-> <<>>]

\* the object every return statement builds
RetrievalResult(relevantChunks, recentHistory) ==
    [relevantChunks |-> relevantChunks, recentChunks |-> recentHistory]

\* currentInput missing: text.match raises inside the try block and the catch
\* block returns the empty result
retrieveRelevantContext(store, threshold, maxCount, currentInput, recentHistory) ==
    IF Len(store) = 0 THEN RetrievalResult(<<>>, recentHistory)
    ELSE IF ~currentInput.defined THEN RetrievalResult(<<>>, recentHistory)
    ELSE LET currentVector == createKeywordVector(currentInput.text) IN
         IF Falsy(currentVector) \/ ObjectKeys(currentVector) = {}
         THEN RetrievalResult(<<>>, recentHistory)
         ELSE LET relevant == RelevantConversations(Similarities(store, currentVector),
                                                    threshold, maxCount)
              IN  RetrievalResult([i \in 1..Len(relevant) |-> Chunk(relevant[i])],
                                  recentHistory)

NoRetrieval ==
    [called |-> FALSE, currentInput |-> Missing, recentHistory |-> <<>>,
     relevantChunks |-> <<>>, recentChunks |-> <<>>]

(***************************************************************************)
(* buildOptimizedMessages                                                  *)
(***************************************************************************)
\* a message content: a text, the dump of the variables, or the list of
\* retrieved memories
TextContent(text) ==
    [kind |-> "text", text |-> text, variables |-> UndefinedVars, memories |-> <<>>]
MissingContent ==
    [kind |-> "undefined", text |-> <<>>, variables |-> UndefinedVars, memories |-> <<>>]
\* '...\n```json\n' + JSON.stringify(currentVariables, null, 2) + '\n```'
DumpContent(variables) ==
    [kind |-> "variables", text |-> <<>>, variables |-> variables, memories |-> <<>>]

\* the largest k in lo..hi with (k - 1/2) / 1000 <= num / sqrt(den2)
RECURSIVE RoundSearch(_, _, _)
RoundSearch(sim, lo, hi) ==
    IF lo >= hi THEN lo
    ELSE LET mid == (lo + hi + 1) \div 2 IN
         IF (2 * mid - 1) * (2 * mid - 1) * sim.den2 <= 4000000 * sim.num * sim.num
         THEN RoundSearch(sim, mid, hi)
         ELSE RoundSearch(sim, lo, mid - 1)

\* (similarity * 100).toFixed(1), in tenths of a percent
PercentTenths(sim) == IF sim.num <= 0 THEN 0 ELSE RoundSearch(sim, 0, 1000)

\* one line group per chunk: its number, turn, similarity, user message, summary
MemoryContent(chunks) ==
    [kind |-> "memories", text |-> <<>>, variables |-> UndefinedVars,
     memories |-> [i \in 1..Len(chunks) |->
                      [number |-> i, turnIndex |-> chunks[i].turnIndex,
                       percent |-> PercentTenths(chunks[i].similarity),
                       userMessage |-> chunks[i].userMessage,
                       summary |-> chunks[i].summary]]]

Message(role, content) == [role |-> role, content |-> content]

\* slice(0, n) instead of slice(-n): the oldest messages
SliceLast_Oldest(seq, n) ==
    IF n >= Len(seq) THEN seq ELSE SubSeq(seq, 1, n)

\* array.slice(-n) for n > 0
SliceLast(seq, n) ==
    IF n >= Len(seq) THEN seq ELSE SubSeq(seq, Len(seq) - n + 1, Len(seq))

\* ambient: window.gameState?.conversationHistory || []
buildOptimizedMessages(store, threshold, maxCount, systemPrompt, currentVariables, currentInput, historyDepth, fullConversationHistory, ambient) ==
    LET retrievalResult == retrieveRelevantContext(store, threshold, maxCount,
                                                   currentInput, <<>>)
        memory == IF Len(retrievalResult.relevantChunks) > 0
                  THEN <<Message("system", MemoryContent(retrievalResult.relevantChunks))>>
                  ELSE <<>>
        conversationHistory == IF Len(fullConversationHistory) > 0
                               THEN fullConversationHistory ELSE ambient
        recent == IF Len(conversationHistory) > 0 /\ historyDepth > 0
                  THEN SliceLast(conversationHistory, historyDepth * 2)
                  ELSE <<>>
    IN  <<Message("system", TextContent(systemPrompt)),
          Message("system", DumpContent(currentVariables))>>
        \o memory
        \o recent
        \o <<Message("user", IF currentInput.defined THEN TextContent(currentInput.text)
                             ELSE MissingContent)>>

NoMessages ==
    [called |-> FALSE, systemPrompt |-> <<>>, currentVariables |-> UndefinedVars,
     currentInput |-> Missing, historyDepth |-> 0, fullConversationHistory |-> <<>>,
     ambient |-> <<>>, messages |-> <<>>]

NoSimilarity ==
    [called |-> FALSE, vec1 |-> UndefinedVec, vec2 |-> UndefinedVec, value |-> ZeroSim]

\* no saveToIndexedDB or loadFromIndexedDB call has returned yet
NoPersist ==
    LET memory == [store |-> <<>>, embeddingMethod |-> "none", maxRetrieveCount |-> 0,
                   minSimilarityThreshold |-> [p |-> 0, q |-> 1]]
    IN  [op |-> "none", point |-> "none", failed |-> FALSE, rejected |-> FALSE,
         found |-> FALSE, blob |-> <<>>, before |-> memory, after |-> memory,
         afterSave |-> FALSE, savedStore |-> <<>>]

NoSave == [state |-> "none", atCall |-> <<>>, loadAfter |-> FALSE]

\* the last saveToIndexedDB call persisted nothing
FailedSave == [state |-> "failed", atCall |-> <<>>, loadAfter |-> FALSE]

NoKeywordVector == [called |-> FALSE, text |-> <<>>, vector |-> UndefinedVec]

\* no group of addConversation calls is being followed
NoBatch == [base |-> <<>>, called |-> {}]

\* the results of the previous call are no longer the last ones
ResetCalls ==
    /\ retrieval' = NoRetrieval
    /\ built' = NoMessages
    /\ similarity' = NoSimilarity
    /\ keywordVector' = NoKeywordVector

ResetOut ==
    /\ ResetCalls
    /\ lastPersist' = NoPersist

ConfigVars == <<maxRetrieveCount, minSimilarityThreshold>>
PersistVars == <<idb, txQueue, savePc, loadPc, lastSave>>
DbVars == <<PersistVars, batch>>
EnvVars == <<embeddingPipeline, transformers>>

\* embeddingMethod 'keyword' (or a value that is none of the three): no await
AddConversationKeywordCall(call) ==
    /\ embeddingMethod \notin {"api", "transformers"}
    /\ Settle(RemoveExisting(conversationEmbeddings, call.turnIndex), call, "keyword",
              KeywordOf(call), FALSE, TRUE, Len(conversationEmbeddings),
              FindIndex(conversationEmbeddings, call.turnIndex) # 0)
    /\ UNCHANGED <<tasks, embeddingMethod, EnvVars, ConfigVars, PersistVars>>
    /\ ResetOut

AddConversationKeyword(call) ==
    /\ AddConversationKeywordCall(call)
    /\ UNCHANGED batch

\* embeddingMethod 'api': up to the first await.  getEmbeddingFromAPI reads
\* window.extraApiConfig: when the provider is disabled it returns the keyword
\* vector at once and addConversation awaits that settled promise, else the
\* fetch is sent.
AddConversationApiCall(call, enabled) ==
    /\ embeddingMethod = "api"
    /\ BagCardinality(tasks) < MaxTasks
    /\ conversationEmbeddings' = RemoveExisting(conversationEmbeddings, call.turnIndex)
    /\ tasks' = tasks (+) One(NewTask(IF enabled THEN "fetch" ELSE "fallback", call, "api"))
    /\ lastAdd' = NoAdd
    /\ UNCHANGED <<embeddingMethod, EnvVars, ConfigVars, PersistVars>>
    /\ ResetOut

AddConversationApi(call, enabled) ==
    /\ AddConversationApiCall(call, enabled)
    /\ UNCHANGED batch

\* how the fetch and the parse of its response can end
ApiOutcomes ==
    {"ok", "fetchThrows", "non2xx", "jsonThrows", "noData",
     "noEmbedding", "emptyEmbedding", "scalarEmbedding"}

\* what getEmbeddingFromAPI returns after the fetch: data.data[0].embedding as
\* it is, or the keyword vector from its catch block
ApiResult(outcome, call, dense) ==
    CASE outcome = "ok"              -> ArrayVec(dense)
      [] outcome = "noEmbedding"     -> UndefinedVec
      [] outcome = "emptyEmbedding"  -> ArrayVec(<<>>)
      [] outcome = "scalarEmbedding" -> NumberVec
      [] OTHER                       -> KeywordOf(call)

\* the fetch of a suspended getEmbeddingFromAPI settles, the response is
\* read and addConversation resumes with the returned value (the steps after
\* the fetch touch no shared state before the push)
ApiFetchSettles(task, outcome, dense) ==
    /\ BagIn(task, tasks)
    /\ task.pc = "fetch"
    /\ Resume(task, ApiResult(outcome, task, dense), outcome # "ok")
    /\ tasks' = Others(task)
    /\ UNCHANGED <<embeddingMethod, EnvVars, ConfigVars, DbVars>>
    /\ ResetOut

\* addConversation resumes after awaiting a backend that fell back to the
\* keyword vector without suspending
AddConversationResumes(task) ==
    /\ BagIn(task, tasks)
    /\ task.pc = "fallback"
    /\ Resume(task, KeywordOf(task), TRUE)
    /\ tasks' = Others(task)
    /\ UNCHANGED <<embeddingMethod, EnvVars, ConfigVars, DbVars>>
    /\ ResetOut

\* getEmbeddingFromTransformers once window.transformers is defined: start the
\* model load when this.embeddingPipeline is not set, else run the pipeline
AfterLibrary(task, pipelineSet) ==
    [task EXCEPT !.pc = IF pipelineSet THEN "infer" ELSE "modelLoad"]

\* embeddingMethod 'transformers': up to the first await of getEmbeddingFromTransformers
AddConversationTransformers(call, hasLoader) ==
    /\ embeddingMethod = "transformers"
    /\ BagCardinality(tasks) < MaxTasks
    /\ conversationEmbeddings' = RemoveExisting(conversationEmbeddings, call.turnIndex)
    /\ LET task == NewTask("libLoad", call, "transformers") IN
       tasks' = tasks (+) One(IF ~transformers /\ hasLoader THEN task
                              ELSE IF ~transformers THEN [task EXCEPT !.pc = "fallback"]
                              ELSE AfterLibrary(task, embeddingPipeline))
    /\ lastAdd' = NoAdd
    /\ UNCHANGED <<embeddingMethod, EnvVars, ConfigVars, DbVars>>
    /\ ResetOut

\* window.loadTransformersJS() settles: it defined window.transformers, or it
\* raised, or it returned without defining it
LibraryLoadSettles(task, outcome) ==
    /\ BagIn(task, tasks)
    /\ task.pc = "libLoad"
    /\ outcome \in {"ok", "libThrows", "libMissing"}
    /\ transformers' = (transformers \/ outcome = "ok")
    /\ IF outcome # "libThrows" /\ transformers'
       THEN /\ tasks' = Others(task) (+) One(AfterLibrary(task, embeddingPipeline))
            /\ lastAdd' = NoAdd
            /\ UNCHANGED conversationEmbeddings
       ELSE /\ Resume(task, KeywordOf(task), TRUE)
            /\ tasks' = Others(task)
    /\ UNCHANGED <<embeddingMethod, embeddingPipeline, ConfigVars, DbVars>>
    /\ ResetOut

\* pipeline('feature-extraction', ...) settles: this.embeddingPipeline is
\* assigned and the pipeline is run, or the load raised
ModelLoadSettles(task, outcome) ==
    /\ BagIn(task, tasks)
    /\ task.pc = "modelLoad"
    /\ outcome \in {"ok", "modelThrows"}
    /\ embeddingPipeline' = (embeddingPipeline \/ outcome = "ok")
    /\ IF outcome = "ok"
       THEN /\ tasks' = Others(task) (+) One([task EXCEPT !.pc = "infer"])
            /\ lastAdd' = NoAdd
            /\ UNCHANGED conversationEmbeddings
       ELSE /\ Resume(task, KeywordOf(task), TRUE)
            /\ tasks' = Others(task)
    /\ UNCHANGED <<embeddingMethod, transformers, ConfigVars, DbVars>>
    /\ ResetOut

\* what getEmbeddingFromTransformers returns after the inference
InferenceResult(outcome, task, dense) ==
    CASE outcome = "ok"          -> ArrayVec(dense)
      [] outcome = "emptyOutput" -> ArrayVec(<<>>)
      [] OTHER                   -> KeywordOf(task)

\* this.embeddingPipeline(text, ...) settles and addConversation resumes
InferenceSettles(task, outcome, dense) ==
    /\ BagIn(task, tasks)
    /\ task.pc = "infer"
    /\ outcome \in {"ok", "inferThrows", "emptyOutput"}
    /\ Resume(task, InferenceResult(outcome, task, dense), outcome # "ok")
    /\ tasks' = Others(task)
    /\ UNCHANGED <<embeddingMethod, EnvVars, ConfigVars, DbVars>>
    /\ ResetOut

(***************************************************************************)
(* setEmbeddingMethod, clear                                               *)
(***************************************************************************)
setEmbeddingMethod(method) ==
    /\ embeddingMethod' =
          IF method \in {"keyword", "api", "transformers"} THEN method ELSE embeddingMethod
    /\ lastAdd' = NoAdd
    /\ UNCHANGED <<conversationEmbeddings, tasks, EnvVars, ConfigVars, DbVars>>
    /\ ResetOut

clear ==
    /\ conversationEmbeddings' = <<>>
    /\ lastAdd' = NoAdd
    /\ UNCHANGED <<tasks, embeddingMethod, EnvVars, ConfigVars, DbVars>>
    /\ ResetOut

(***************************************************************************)
(* Construction                                                            *)
(***************************************************************************)
DefaultMaxRetrieveCount == 5
DefaultThreshold == [p |-> 3, q |-> 10]

NoRecord == [present |-> FALSE, embeddings |-> <<>>]

Init ==
    /\ conversationEmbeddings = <<>>
    /\ embeddingMethod = "keyword"
    /\ maxRetrieveCount = DefaultMaxRetrieveCount
    /\ minSimilarityThreshold = DefaultThreshold
    /\ embeddingPipeline = FALSE
    /\ transformers = FALSE
    /\ tasks = EmptyBag
    /\ lastAdd = NoAdd
    /\ idb = NoRecord
    /\ txQueue = <<>>
    /\ savePc = "idle"
    /\ loadPc = "idle"
    /\ lastPersist = NoPersist
    /\ lastSave = NoSave
    /\ batch = NoBatch
    /\ retrieval = NoRetrieval
    /\ built = NoMessages
    /\ similarity = NoSimilarity
    /\ keywordVector = NoKeywordVector

(***************************************************************************)
(* Spec: concurrent callers of addConversation under the keyword and the   *)
(* api method                                                              *)
(***************************************************************************)
ApiSettles ==
    \E task \in BagToSet(tasks), outcome \in ApiOutcomes, dense \in DenseVectors :
        ApiFetchSettles(task, outcome, dense)

AddResumed == \E task \in BagToSet(tasks) : AddConversationResumes(task)

Next ==
    \/ \E call \in Calls : AddConversationKeyword(call)
    \/ \E call \in Calls, enabled \in BOOLEAN : AddConversationApi(call, enabled)
    \/ ApiSettles
    \/ AddResumed
    \/ \E method \in {"keyword", "api", "bogus"} : setEmbeddingMethod(method)
    \/ clear

Spec == Init /\ [][Next]_vars

(***************************************************************************)
(* SpecTransformers: concurrent callers under the transformers method      *)
(***************************************************************************)
NextTransformers ==
    \/ \E call \in Calls, hasLoader \in BOOLEAN : AddConversationTransformers(call, hasLoader)
    \/ \E task \in BagToSet(tasks), outcome \in {"ok", "libThrows", "libMissing"} :
          LibraryLoadSettles(task, outcome)
    \/ \E task \in BagToSet(tasks), outcome \in {"ok", "modelThrows"} :
          ModelLoadSettles(task, outcome)
    \/ \E task \in BagToSet(tasks), outcome \in {"ok", "inferThrows", "emptyOutput"},
          dense \in DenseVectors :
          InferenceSettles(task, outcome, dense)
    \/ AddResumed
    \/ \E method \in {"transformers"} : setEmbeddingMethod(method)
    \/ clear

SpecTransformers == Init /\ [][NextTransformers]_vars


(***************************************************************************)
(* Callers that await each call before making the next one                 *)
(***************************************************************************)
W_short == W_hero \o SP \o W_forest
TextForestOnly == W_forest

\* the arguments of the addConversation calls of the awaiting caller
SequentialCalls ==
    {Call(1, TextForest, <<>>, VarsCave),
     Call(2, TextTown, <<>>, VarsNowhere),
     Call(2, TextDigits, <<"?">>, VarsNowhere),
     Call(3, W_short, <<"?">>, VarsCave),
     Call(3, TextForest, <<>>, VarsCave)}

\* addConversation under the api method, awaited: the call, the settling of
\* its backend and its resumption with no other operation in between.
\* outcome "disabled": the provider is not enabled.
AddConversationApiAwaited(call, outcome, dense) ==
    /\ embeddingMethod = "api"
    /\ tasks = EmptyBag
    /\ Settle(RemoveExisting(conversationEmbeddings, call.turnIndex), call, "api",
              ApiResult(outcome, call, dense), outcome # "ok",
              TRUE, Len(conversationEmbeddings),
              FindIndex(conversationEmbeddings, call.turnIndex) # 0)
    /\ UNCHANGED <<tasks, embeddingMethod, EnvVars, ConfigVars, DbVars>>
    /\ ResetOut

\* the host assigns this.maxRetrieveCount and this.minSimilarityThreshold
SetConfig(maxCount, threshold) ==
    /\ maxRetrieveCount' = maxCount
    /\ minSimilarityThreshold' = threshold
    /\ lastAdd' = NoAdd
    /\ UNCHANGED <<conversationEmbeddings, tasks, embeddingMethod, EnvVars, DbVars>>
    /\ ResetOut

RetrieveCounts == {0, 1, 5}
Thresholds == {[p |-> 0, q |-> 1], [p |-> 1, q |-> 10], [p |-> 3, q |-> 10]}

RoleMessage(role, text) == Message(role, TextContent(text))

\* a conversation of five messages and its tails
History5 ==
    <<RoleMessage("user", W_enters), RoleMessage("assistant", W_forest),
      RoleMessage("user", W_buys), RoleMessage("assistant", W_sword),
      RoleMessage("user", W_town)>>
RecentHistories == {<<>>, SubSeq(History5, 1, 2)}
\* fullConversationHistory and window.gameState.conversationHistory
HistoryArgs ==
    {[full |-> <<>>, ambient |-> <<>>],
     [full |-> <<>>, ambient |-> SubSeq(History5, 1, 2)],
     [full |-> SubSeq(History5, 5, 5), ambient |-> SubSeq(History5, 1, 2)],
     [full |-> SubSeq(History5, 3, 5), ambient |-> <<>>],
     [full |-> History5, ambient |-> SubSeq(History5, 1, 2)]}
HistoryDepths == {0, 1, 2}

Queries == {Given(TextQuery), Given(TextForestOnly), Given(TextDigits), Missing}

\* retrieveRelevantContext(currentInput, recentHistory) is called
Retrieve(currentInput, recentHistory) ==
    /\ retrieval' =
          LET result == retrieveRelevantContext(conversationEmbeddings,
                            minSimilarityThreshold, maxRetrieveCount,
                            currentInput, recentHistory)
          IN  [called |-> TRUE, currentInput |-> currentInput,
               recentHistory |-> recentHistory,
               relevantChunks |-> result.relevantChunks,
               recentChunks |-> result.recentChunks]
    /\ built' = NoMessages
    /\ similarity' = NoSimilarity
    /\ lastAdd' = NoAdd
    /\ lastPersist' = NoPersist
    /\ keywordVector' = NoKeywordVector
    /\ UNCHANGED <<conversationEmbeddings, tasks, embeddingMethod, EnvVars,
                   ConfigVars, DbVars>>

\* buildOptimizedMessages(...) is called
Build(systemPrompt, currentVariables, currentInput, historyDepth, fullConversationHistory, ambient) ==
    /\ built' =
          [called |-> TRUE, systemPrompt |-> systemPrompt,
           currentVariables |-> currentVariables, currentInput |-> currentInput,
           historyDepth |-> historyDepth,
           fullConversationHistory |-> fullConversationHistory, ambient |-> ambient,
           messages |-> buildOptimizedMessages(conversationEmbeddings,
                            minSimilarityThreshold, maxRetrieveCount, systemPrompt,
                            currentVariables, currentInput, historyDepth,
                            fullConversationHistory, ambient)]
    /\ retrieval' = NoRetrieval
    /\ similarity' = NoSimilarity
    /\ lastAdd' = NoAdd
    /\ lastPersist' = NoPersist
    /\ keywordVector' = NoKeywordVector
    /\ UNCHANGED <<conversationEmbeddings, tasks, embeddingMethod, EnvVars,
                   ConfigVars, DbVars>>

AssembleCalls ==
    {Call(1, TextForest, <<>>, VarsCave),
     Call(2, TextTown, <<>>, VarsNowhere),
     Call(3, W_short, <<"?">>, VarsCave)}

\* the backend outcomes that lead to different entries
SequentialOutcomes == {"ok", "disabled", "scalarEmbedding"}

BuildQueries == {Given(TextQuery), Given(TextDigits), Missing}

SequentialAdd(calls, outcomes) ==
    \/ \E call \in calls : AddConversationKeyword(call)
    \/ \E call \in calls, outcome \in outcomes, dense \in DenseVectors :
          AddConversationApiAwaited(call, outcome, dense)
    \/ \E method \in {"keyword", "api"} : setEmbeddingMethod(method)
    \/ clear

\* SpecRetrieval: the awaiting caller retrieves under changing configuration
NextRetrieval ==
    \/ SequentialAdd(SequentialCalls, SequentialOutcomes)
    \/ \E maxCount \in RetrieveCounts, threshold \in Thresholds :
          SetConfig(maxCount, threshold)
    \/ \E currentInput \in Queries, recentHistory \in RecentHistories :
          Retrieve(currentInput, recentHistory)

SpecRetrieval == Init /\ [][NextRetrieval]_vars

SystemPrompt == <<"b", "e", " ", "b", "r", "i", "e", "f">>

\* SpecAssemble: the awaiting caller builds the messages of the next request
NextAssemble ==
    \/ SequentialAdd(AssembleCalls, {"ok"})
    \/ \E currentInput \in BuildQueries, historyDepth \in HistoryDepths,
          history \in HistoryArgs :
          Build(SystemPrompt, VarsCave, currentInput, historyDepth,
                history.full, history.ambient)

SpecAssemble == Init /\ [][NextAssemble]_vars

(***************************************************************************)
(* SpecSimilarity: calculateCosineSimilarity on drawn arguments            *)
(***************************************************************************)
\* a text with a word that names a property of Object.prototype
TextConstructor == W_constructor \o SP \o W_hero

SampleVectors ==
    {UndefinedVec, NumberVec, ObjectVec(NoMap),
     createKeywordVector(TextForest), createKeywordVector(TextTown),
     createKeywordVector(W_short), createKeywordVector(TextConstructor),
     ArrayVec(<<>>), ArrayVec(<<3, 4>>), ArrayVec(<<0 - 1, 2>>),
     ArrayVec(<<1, 0, 2>>), ArrayVec(<<0, 0>>)}

InitSimilarity ==
    /\ conversationEmbeddings = <<>>
    /\ embeddingMethod = "keyword"
    /\ maxRetrieveCount = DefaultMaxRetrieveCount
    /\ minSimilarityThreshold = DefaultThreshold
    /\ embeddingPipeline = FALSE
    /\ transformers = FALSE
    /\ tasks = EmptyBag
    /\ lastAdd = NoAdd
    /\ idb = NoRecord
    /\ txQueue = <<>>
    /\ savePc = "idle"
    /\ loadPc = "idle"
    /\ lastPersist = NoPersist
    /\ lastSave = NoSave
    /\ batch = NoBatch
    /\ retrieval = NoRetrieval
    /\ built = NoMessages
    /\ similarity \in {[called |-> FALSE, vec1 |-> v1, vec2 |-> v2, value |-> ZeroSim] :
                          v1 \in SampleVectors, v2 \in SampleVectors}
    /\ keywordVector = NoKeywordVector

\* calculateCosineSimilarity(vec1, vec2) is called on the drawn arguments
Compare ==
    /\ ~similarity.called
    /\ similarity' = [similarity EXCEPT
                         !.called = TRUE,
                         !.value = calculateCosineSimilarity(similarity.vec1, similarity.vec2)]
    /\ UNCHANGED <<conversationEmbeddings, tasks, lastAdd, embeddingMethod, EnvVars,
                   ConfigVars, DbVars, lastPersist, retrieval, built, keywordVector>>

NextSimilarity == Compare

SpecSimilarity == InitSimilarity /\ [][NextSimilarity]_vars

(***************************************************************************)
(* SpecKeywords: createKeywordVector on drawn texts                        *)
(***************************************************************************)
\* the texts have at most this many words
MaxWords == 3

KeywordWords == {W_hero, W_in, W_a, W_constructor}

\* 21 different words of two letters, the last of them written twice
ManyWords ==
    LET second == <<"b", "d", "e", "f", "h", "i", "n", "o", "r", "s", "t", "u", "w", "y">>
    IN  [i \in 1..22 |-> IF i <= 14 THEN <<"a", second[i]>>
                         ELSE IF i <= 21 THEN <<"b", second[i - 13]>>
                         ELSE <<"b", second[8]>>]

TextMany == [p \in 1..65 |-> IF p % 3 = 0 THEN " " ELSE ManyWords[(p + 2) \div 3][p % 3]]

KeywordTexts ==
    {Join(ws, SP) : ws \in UNION {[1..n -> KeywordWords] : n \in 0..MaxWords}}
        \cup {TextMany}

InitKeywords ==
    /\ conversationEmbeddings = <<>>
    /\ embeddingMethod = "keyword"
    /\ maxRetrieveCount = DefaultMaxRetrieveCount
    /\ minSimilarityThreshold = DefaultThreshold
    /\ embeddingPipeline = FALSE
    /\ transformers = FALSE
    /\ tasks = EmptyBag
    /\ lastAdd = NoAdd
    /\ idb = NoRecord
    /\ txQueue = <<>>
    /\ savePc = "idle"
    /\ loadPc = "idle"
    /\ lastPersist = NoPersist
    /\ lastSave = NoSave
    /\ batch = NoBatch
    /\ retrieval = NoRetrieval
    /\ built = NoMessages
    /\ similarity = NoSimilarity
    /\ keywordVector \in {[called |-> FALSE, text |-> text, vector |-> UndefinedVec] :
                             text \in KeywordTexts}

\* createKeywordVector(text) is called on the drawn text
Vectorize ==
    /\ ~keywordVector.called
    /\ keywordVector' = [keywordVector EXCEPT
                            !.called = TRUE,
                            !.vector = createKeywordVector(keywordVector.text)]
    /\ UNCHANGED <<conversationEmbeddings, tasks, lastAdd, embeddingMethod, EnvVars,
                   ConfigVars, DbVars, lastPersist, retrieval, built, similarity>>

NextKeywords == Vectorize

SpecKeywords == InitKeywords /\ [][NextKeywords]_vars

(***************************************************************************)
(* saveToIndexedDB / loadFromIndexedDB / openVectorDB                      *)
(*                                                                         *)
(* The object store 'embeddings' holds at most the record 'main'.          *)
(* Transactions on it run in the order they were created; a readwrite      *)
(* transaction commits once the function that issued its requests is done. *)
(***************************************************************************)
\* the readwrite transactions that may be waiting to commit
MaxPendingSaves == 1

ReadTx == [mode |-> "readonly", put |-> FALSE, embeddings |-> <<>>, finished |-> TRUE]

PendingSaves == {i \in 1..Len(txQueue) : txQueue[i].mode = "readwrite"}

MemVars == <<conversationEmbeddings, embeddingMethod, EnvVars, ConfigVars, tasks, batch>>

Touch ==
    /\ lastAdd' = NoAdd
    /\ ResetCalls

\* the in-memory store and the configuration
Memory(store) ==
    [store |-> store, embeddingMethod |-> embeddingMethod,
     maxRetrieveCount |-> maxRetrieveCount,
     minSimilarityThreshold |-> minSimilarityThreshold]

\* both functions wrap their whole body in try { ... } catch (error) { console.error }
InsideTry_OpenOutside(op, point) == point # "open"
InsideTry(op, point) == TRUE

\* a saveToIndexedDB or loadFromIndexedDB call returns to its caller
Returned(op, point, failed, found, blob, storeAfter) ==
    [op |-> op, point |-> point, failed |-> failed,
     rejected |-> failed /\ ~InsideTry(op, point),
     found |-> found, blob |-> blob,
     before |-> Memory(conversationEmbeddings), after |-> Memory(storeAfter),
     afterSave |-> lastSave.loadAfter /\ lastSave.state = "committed",
     savedStore |-> lastSave.atCall]

\* how indexedDB.open and db.transaction(...) end
OpenOutcomes == {"ok", "openFails", "transactionFails"}

PointOf(outcome) == IF outcome = "openFails" THEN "open" ELSE "transaction"

\* saveToIndexedDB is called: up to await this.openVectorDB(dbName)
saveToIndexedDB ==
    /\ savePc = "idle"
    /\ savePc' = "open"
    /\ lastSave' = [state |-> "called", atCall |-> conversationEmbeddings,
                    loadAfter |-> FALSE]
    /\ lastPersist' = NoPersist
    /\ Touch
    /\ UNCHANGED <<MemVars, idb, txQueue, loadPc>>

\* indexedDB.open settles for the save: on success the transaction is created
\* and store.clear() is issued, up to await store.clear()
SaveOpenSettles(outcome) ==
    /\ savePc = "open"
    /\ IF outcome = "ok"
       THEN /\ Cardinality(PendingSaves) < MaxPendingSaves
            /\ txQueue' = Append(txQueue, [mode |-> "readwrite", put |-> FALSE,
                                           embeddings |-> <<>>, finished |-> FALSE])
            /\ savePc' = "clear"
            /\ lastPersist' = NoPersist
            /\ UNCHANGED lastSave
       ELSE /\ savePc' = "idle"
            /\ lastPersist' = Returned("save", PointOf(outcome), TRUE, FALSE, <<>>,
                                       conversationEmbeddings)
            /\ lastSave' = FailedSave
            /\ UNCHANGED txQueue
    /\ Touch
    /\ UNCHANGED <<MemVars, idb, loadPc>>

\* the save resumes after await store.clear(): store.put({id: 'main',
\* embeddings: this.conversationEmbeddings, ...}) clones the store as it is
\* now, or raises
SavePut(ok) ==
    /\ savePc = "clear"
    /\ savePc' = "idle"
    /\ LET i == CHOOSE j \in 1..Len(txQueue) :
                    txQueue[j].mode = "readwrite" /\ ~txQueue[j].finished
       IN  txQueue' = [txQueue EXCEPT
                          ![i] = [mode |-> "readwrite", put |-> ok,
                                  embeddings |-> IF ok THEN conversationEmbeddings ELSE <<>>,
                                  finished |-> TRUE]]
    /\ lastPersist' = Returned("save", "put", ~ok, FALSE, <<>>, conversationEmbeddings)
    /\ lastSave' = IF ok THEN [lastSave EXCEPT !.state = "put"] ELSE FailedSave
    /\ Touch
    /\ UNCHANGED <<MemVars, idb, loadPc>>

\* the oldest transaction is a finished readwrite one: it commits its clear
\* and its put, or aborts
SaveTransactionCompletes(commit) ==
    /\ txQueue # <<>>
    /\ Head(txQueue).mode = "readwrite"
    /\ Head(txQueue).finished
    /\ txQueue' = Tail(txQueue)
    /\ idb' = IF ~commit THEN idb
              ELSE IF Head(txQueue).put
                   THEN [present |-> TRUE, embeddings |-> Head(txQueue).embeddings]
                   ELSE NoRecord
    /\ lastSave' = IF /\ lastSave.state = "put"
                      /\ \A i \in 2..Len(txQueue) : txQueue[i].mode # "readwrite"
                   THEN IF commit THEN [lastSave EXCEPT !.state = "committed"] ELSE FailedSave
                   ELSE lastSave
    /\ lastPersist' = NoPersist
    /\ Touch
    /\ UNCHANGED <<MemVars, savePc, loadPc>>

\* loadFromIndexedDB is called: up to await this.openVectorDB(dbName)
loadFromIndexedDB ==
    /\ loadPc = "idle"
    /\ loadPc' = "open"
    /\ lastSave' = [lastSave EXCEPT !.loadAfter = lastSave.state \in {"put", "committed"}]
    /\ lastPersist' = NoPersist
    /\ Touch
    /\ UNCHANGED <<MemVars, idb, txQueue, savePc>>

\* indexedDB.open settles for the load: on success store.get('main') is issued
LoadOpenSettles(outcome) ==
    /\ loadPc = "open"
    /\ IF outcome = "ok"
       THEN /\ txQueue' = Append(txQueue, ReadTx)
            /\ loadPc' = "get"
            /\ lastPersist' = NoPersist
       ELSE /\ loadPc' = "idle"
            /\ lastPersist' = Returned("load", PointOf(outcome), TRUE, FALSE, <<>>,
                                       conversationEmbeddings)
            /\ UNCHANGED txQueue
    /\ Touch
    /\ UNCHANGED <<MemVars, idb, savePc, lastSave>>

\* if (result && result.embeddings) this.conversationEmbeddings = result.embeddings
LoadedStore_Merged(ok, store) == IF ok /\ idb.present THEN store \o idb.embeddings ELSE store
LoadedStore(ok, store) == IF ok /\ idb.present THEN idb.embeddings ELSE store

\* the get request settles once its transaction is the oldest one: on success
\* a found record replaces this.conversationEmbeddings
LoadGetSettles(ok) ==
    /\ loadPc = "get"
    /\ txQueue # <<>>
    /\ Head(txQueue).mode = "readonly"
    /\ txQueue' = Tail(txQueue)
    /\ loadPc' = "idle"
    /\ conversationEmbeddings' = LoadedStore(ok, conversationEmbeddings)
    /\ lastPersist' = Returned("load", "get", ~ok, ok /\ idb.present, idb.embeddings,
                               conversationEmbeddings')
    /\ Touch
    /\ UNCHANGED <<embeddingMethod, EnvVars, ConfigVars, tasks, idb, savePc, lastSave, batch>>

\* the arguments of the addConversation calls made around saves and loads
PersistenceCalls ==
    {Call(1, TextForest, <<>>, VarsCave),
     Call(2, TextTown, <<>>, VarsNowhere)}

\* SpecPersistence: saves and loads interleaved with keyword upserts and clear
NextPersistence ==
    \/ \E call \in PersistenceCalls : AddConversationKeyword(call)
    \/ clear
    \/ saveToIndexedDB
    \/ \E outcome \in OpenOutcomes : SaveOpenSettles(outcome)
    \/ \E ok \in BOOLEAN : SavePut(ok)
    \/ \E commit \in BOOLEAN : SaveTransactionCompletes(commit)
    \/ loadFromIndexedDB
    \/ \E outcome \in OpenOutcomes : LoadOpenSettles(outcome)
    \/ \E ok \in BOOLEAN : LoadGetSettles(ok)

SpecPersistence == Init /\ [][NextPersistence]_vars

(***************************************************************************)
(* SpecBatch: a group of addConversation calls with pairwise different     *)
(* turn indices that run concurrently, with no clear and no load           *)
(***************************************************************************)
\* the entry a keyword call leaves in the store
StoredAs(call) ==
    NewEntry(call.turnIndex, call.userMessage, call.aiResponse, call.variables,
             ValidatedVector(KeywordOf(call), CombinedText(call.userMessage, call.aiResponse)))

\* the stores the group finds: empty, one turn, and turn 1 stored twice, as
\* two earlier calls for turn 1 that interleaved leave it
BaseStores ==
    {<<>>,
     <<StoredAs(Call(1, TextForest, TextTown, VarsCave))>>,
     <<StoredAs(Call(1, TextForest, TextTown, VarsCave)),
       StoredAs(Call(1, TextDigits, <<"?">>, VarsNowhere))>>}

\* the arguments of the calls of the group
BatchCalls ==
    {Call(1, TextTown, <<>>, VarsNowhere),
     Call(2, TextTown, TextCave, VarsCave),
     Call(3, TextForest, <<>>, VarsCave)}

InitBatch ==
    /\ conversationEmbeddings \in BaseStores
    /\ embeddingMethod \in {"keyword", "api"}
    /\ maxRetrieveCount = DefaultMaxRetrieveCount
    /\ minSimilarityThreshold = DefaultThreshold
    /\ embeddingPipeline = FALSE
    /\ transformers = FALSE
    /\ tasks = EmptyBag
    /\ lastAdd = NoAdd
    /\ idb = NoRecord
    /\ txQueue = <<>>
    /\ savePc = "idle"
    /\ loadPc = "idle"
    /\ lastPersist = NoPersist
    /\ lastSave = NoSave
    /\ batch = [base |-> conversationEmbeddings, called |-> {}]
    /\ retrieval = NoRetrieval
    /\ built = NoMessages
    /\ similarity = NoSimilarity
    /\ keywordVector = NoKeywordVector

\* the group gets one more call, for a turn index none of its calls has
Joins(call) ==
    /\ call.turnIndex \notin batch.called
    /\ batch' = [batch EXCEPT !.called = @ \cup {call.turnIndex}]

NextBatch ==
    \/ \E call \in BatchCalls : Joins(call) /\ AddConversationKeywordCall(call)
    \/ \E call \in BatchCalls, enabled \in BOOLEAN :
          Joins(call) /\ AddConversationApiCall(call, enabled)
    \/ ApiSettles
    \/ AddResumed
    \/ \E method \in {"keyword", "api"} : setEmbeddingMethod(method)

SpecBatch == InitBatch /\ [][NextBatch]_vars

(***************************************************************************)
(* Claims about the store under concurrent callers                         *)
(***************************************************************************)
\* C1: in every reachable state no two entries of conversationEmbeddings
\* have the same turnIndex, whatever the interleaving of suspended
\* addConversation calls.
C1_UniqueTurnIndex ==
    \A i, j \in 1..Len(conversationEmbeddings) :
        i # j => conversationEmbeddings[i].turnIndex # conversationEmbeddings[j].turnIndex

EntriesOfTurn(turnIndex) ==
    {i \in 1..Len(conversationEmbeddings) :
        conversationEmbeddings[i].turnIndex = turnIndex}

\* C2: an addConversation(u, a, t, vars) that completed with nothing
\* interleaved, for a t that was in the store, leaves the store size
\* unchanged and leaves exactly one entry with turnIndex t, whose
\* userMessage, aiResponse, vector and summary are those derived from
\* (u, a, vars).
C2_UpsertReplaces ==
    (lastAdd.settled /\ lastAdd.alone /\ lastAdd.present /\ ~lastAdd.raised) =>
        /\ Len(conversationEmbeddings) = lastAdd.sizeBefore
        /\ Cardinality(EntriesOfTurn(lastAdd.turnIndex)) = 1
        /\ \A i \in EntriesOfTurn(lastAdd.turnIndex) :
              LET entry == conversationEmbeddings[i] IN
              /\ entry.userMessage = lastAdd.userMessage
              /\ entry.aiResponse = lastAdd.aiResponse
              /\ entry.vector = KeywordOf(lastAdd)
              /\ entry.summary = extractSummary(lastAdd.userMessage, lastAdd.aiResponse,
                                                lastAdd.variables)

\* the entry the last settled call pushed
LastEntry == conversationEmbeddings[Len(conversationEmbeddings)]

\* C3: under the api or the transformers method, whenever the backend fails
\* (provider disabled, fetch raises, non-2xx status, malformed response,
\* library or model load raises, inference raises) addConversation, called
\* with all its arguments, does not raise and inserts an entry whose vector is
\* the keyword vector of userMessage + '\n' + aiResponse, with vectorType
\* 'sparse'.
C3_FailureFallsBackToKeywords ==
    (/\ lastAdd.settled
     /\ lastAdd.method \in {"api", "transformers"}
     /\ lastAdd.failed
     /\ lastAdd.variables.defined) =>
        /\ ~lastAdd.raised
        /\ conversationEmbeddings # <<>>
        /\ LastEntry.turnIndex = lastAdd.turnIndex
        /\ LastEntry.vector = KeywordOf(lastAdd)
        /\ LastEntry.vectorType = "sparse"

\* a sparse mapping with at least one key or a dense sequence with at least one element
Usable(vector) ==
    \/ vector.rep = "object" /\ DOMAIN vector.map # {}
    \/ vector.rep = "array" /\ Len(vector.arr) > 0

\* C4: every entry of the store made from a non-empty userMessage and a
\* non-empty aiResponse carries a usable vector, whatever the method and the
\* outcome of the backend.
C4_VectorAlwaysUsable ==
    \A i \in 1..Len(conversationEmbeddings) :
        LET entry == conversationEmbeddings[i] IN
        (entry.userMessage # <<>> /\ entry.aiResponse # <<>>) => Usable(entry.vector)

\* the pipeline(...) calls that have not settled yet
ModelLoadsInFlight ==
    LET loading == {task \in BagToSet(tasks) : task.pc = "modelLoad"} IN
    SumOver(loading, [task \in loading |-> CopiesIn(task, tasks)])

\* C5: the on-device model load is never started while another load is in
\* flight: at most one pipeline(...) call is pending at any time.
C5_SingleModelLoad == ModelLoadsInFlight <= 1


(***************************************************************************)
(* Claims about retrieval                                                  *)
(***************************************************************************)
ThresholdValue == Ratio(minSimilarityThreshold.p, minSimilarityThreshold.q)

\* C6: retrieveRelevantContext returns at most maxRetrieveCount chunks, each
\* with a similarity of at least minSimilarityThreshold, for every store,
\* query and configured pair of values.
C6_RetrievalBounded ==
    retrieval.called =>
        /\ Len(retrieval.relevantChunks) <= maxRetrieveCount
        /\ \A i \in 1..Len(retrieval.relevantChunks) :
              SimGeq(retrieval.relevantChunks[i].similarity, ThresholdValue)

\* the similarity of a stored turn to the query of the last retrieval
StoredSimilarity(i) ==
    calculateCosineSimilarity(createKeywordVector(retrieval.currentInput.text),
                              ComparedVector(conversationEmbeddings[i]))

\* C6 witness: two stored turns meet the threshold and the cut at
\* maxRetrieveCount = 1 returns one of them.
C6_Witness ==
    /\ retrieval.called
    /\ maxRetrieveCount = 1
    /\ Len(retrieval.relevantChunks) = 1
    /\ Len(conversationEmbeddings) = 2
    /\ \A i \in 1..2 : SimGeq(StoredSimilarity(i), ThresholdValue)
    /\ minSimilarityThreshold.p > 0

ReturnedTurns ==
    {retrieval.relevantChunks[i].turnIndex : i \in 1..Len(retrieval.relevantChunks)}

\* relevantChunks is ordered by non-increasing similarity
OrderedBySimilarity ==
    \A i, j \in 1..Len(retrieval.relevantChunks) :
        i < j => SimGeq(retrieval.relevantChunks[i].similarity,
                        retrieval.relevantChunks[j].similarity)

\* no stored turn that meets the threshold and was left out is strictly more
\* similar than a returned one
NothingBetterLeftOut ==
    \A i \in 1..Len(conversationEmbeddings) :
        (/\ retrieval.currentInput.defined
         /\ conversationEmbeddings[i].turnIndex \notin ReturnedTurns
         /\ SimGeq(StoredSimilarity(i), ThresholdValue)) =>
            \A k \in 1..Len(retrieval.relevantChunks) :
                ~SimGt(StoredSimilarity(i), retrieval.relevantChunks[k].similarity)

\* the weight a stored turn shares with the query: the sum over the common
\* terms of the products of their weights
SharedWeight(turnIndex) ==
    LET conv   == conversationEmbeddings[FindIndex(conversationEmbeddings, turnIndex)]
        query  == createKeywordVector(retrieval.currentInput.text)
        vector == ComparedVector(conv)
        common == ObjectKeys(query) \cap ObjectKeys(vector)
    IN  SumOver(common, [k \in common |-> WeightAt(query, k) * WeightAt(vector, k)])

\* C7 as stated: the chunks are ordered by non-increasing similarity, nothing
\* better is left out, and a turn sharing more weighted terms with the query
\* ranks above one sharing fewer.
C7_RanksBySharedTerms ==
    retrieval.called =>
        /\ OrderedBySimilarity
        /\ NothingBetterLeftOut
        /\ \A i, j \in 1..Len(retrieval.relevantChunks) :
              SharedWeight(retrieval.relevantChunks[i].turnIndex)
                  > SharedWeight(retrieval.relevantChunks[j].turnIndex) => i < j

\* the scenario of the specification: the forest turn and the town turn
\* stored by the keyword method, query "hero in the forest", threshold 0.1,
\* maxRetrieveCount 5
ForestTownScenario ==
    /\ retrieval.currentInput = Given(TextQuery)
    /\ minSimilarityThreshold = [p |-> 1, q |-> 10]
    /\ maxRetrieveCount = 5
    /\ Len(conversationEmbeddings) = 2
    /\ \E i, j \in 1..2 :
          /\ conversationEmbeddings[i].turnIndex = 1
          /\ conversationEmbeddings[i].userMessage = TextForest
          /\ conversationEmbeddings[j].turnIndex = 2
          /\ conversationEmbeddings[j].userMessage = TextTown
    /\ \A i \in 1..2 : conversationEmbeddings[i].vectorType = "sparse"
                       /\ conversationEmbeddings[i].vector.rep = "object"

\* C7 amended: the chunks are ordered by non-increasing cosine similarity and
\* nothing better is left out; in the forest/town scenario turn 1 ranks above
\* turn 2.
C7_RanksBySimilarity ==
    retrieval.called =>
        /\ OrderedBySimilarity
        /\ NothingBetterLeftOut
        /\ ForestTownScenario =>
              /\ Len(retrieval.relevantChunks) = 2
              /\ retrieval.relevantChunks[1].turnIndex = 1
              /\ retrieval.relevantChunks[2].turnIndex = 2

\* C7 witness: two chunks of different similarity are returned in the order
\* opposite to the store's (the town turn was stored before the forest turn)
\* in the scenario.
C7_Witness ==
    /\ retrieval.called
    /\ ForestTownScenario
    /\ conversationEmbeddings[1].turnIndex = 2
    /\ Len(retrieval.relevantChunks) = 2
    /\ SimGt(retrieval.relevantChunks[1].similarity, retrieval.relevantChunks[2].similarity)

\* C8: on an empty store relevantChunks is empty, and on every path (empty
\* store, empty query vector, internal error, normal) recentChunks is the
\* recentHistory argument.
C8_RecentPassedThrough ==
    retrieval.called =>
        /\ retrieval.recentChunks = retrieval.recentHistory
        /\ conversationEmbeddings = <<>> => retrieval.relevantChunks = <<>>

\* C8 witness: a retrieval on the empty store with a non-empty recentHistory.
C8_Witness ==
    /\ retrieval.called
    /\ conversationEmbeddings = <<>>
    /\ retrieval.recentHistory # <<>>
    /\ retrieval.recentChunks # <<>>

\* one argument is a sparse mapping and the other a dense sequence
MixedRepresentations(vec1, vec2) ==
    {vec1.rep, vec2.rep} = {"object", "array"}

Absent(vec) == vec.rep = "undefined"

\* C9: calculateCosineSimilarity returns the number 0, and does not raise,
\* when an argument is absent or the two arguments are one sparse and one
\* dense, in either order.
C9_ZeroOnAbsentOrMixed ==
    (/\ similarity.called
     /\ \/ Absent(similarity.vec1)
        \/ Absent(similarity.vec2)
        \/ MixedRepresentations(similarity.vec1, similarity.vec2)) =>
        /\ similarity.value.num = 0
        /\ similarity.value.den2 > 0

\* C9 witness: a non-empty dense first argument against a non-empty sparse
\* second one.
C9_Witness ==
    /\ similarity.called
    /\ similarity.vec1.rep = "array" /\ Len(similarity.vec1.arr) > 0
    /\ similarity.vec2.rep = "object" /\ DOMAIN similarity.vec2.map # {}

(***************************************************************************)
(* Claims about buildOptimizedMessages                                     *)
(***************************************************************************)
\* what retrieval returns for the query of the last build
BuiltRetrieval ==
    retrieveRelevantContext(conversationEmbeddings, minSimilarityThreshold,
                            maxRetrieveCount, built.currentInput, <<>>).relevantChunks

\* C10: for historyDepth d > 0 and a non-empty fullConversationHistory h the
\* result is, in this order: the system prompt, the dump of the variables,
\* one retrieved-memory message exactly when retrieval is non-empty, the last
\* min(2d, |h|) messages of h in their order, the user message with the
\* query, and nothing else.
C10_MessageOrder ==
    (built.called /\ built.historyDepth > 0 /\ built.fullConversationHistory # <<>>) =>
        LET m      == built.messages
            h      == built.fullConversationHistory
            n      == Min(2 * built.historyDepth, Len(h))
            memory == IF BuiltRetrieval # <<>> THEN 1 ELSE 0
        IN  /\ Len(m) = 2 + memory + n + 1
            /\ m[1].role = "system" /\ m[1].content.kind = "text"
            /\ m[1].content.text = built.systemPrompt
            /\ m[2].role = "system" /\ m[2].content.kind = "variables"
            /\ m[2].content.variables = built.currentVariables
            /\ memory = 1 =>
                  /\ m[3].role = "system" /\ m[3].content.kind = "memories"
                  /\ Len(m[3].content.memories) = Len(BuiltRetrieval)
            /\ Cardinality({k \in 1..Len(m) : m[k].content.kind = "memories"}) = memory
            /\ \A k \in 1..n : m[2 + memory + k] = h[Len(h) - n + k]
            /\ m[Len(m)].role = "user"
            /\ built.currentInput.defined =>
                  m[Len(m)].content = TextContent(built.currentInput.text)

\* C10 witness: depth 2 on a history of five messages, with a retrieved
\* memory: seven messages plus the query.
C10_Witness ==
    /\ built.called
    /\ built.historyDepth = 2
    /\ Len(built.fullConversationHistory) = 5
    /\ BuiltRetrieval # <<>>
    /\ Len(built.messages) = 8

\* C11: when historyDepth is 0 or the fullConversationHistory argument is
\* empty, the result holds no recent-window message, whatever
\* window.gameState.conversationHistory holds: it is the system prompt, the
\* dump of the variables, at most one retrieved-memory message and the user
\* message.
C11_NoRecentWindow ==
    (built.called /\ (built.historyDepth = 0 \/ built.fullConversationHistory = <<>>)) =>
        LET m      == built.messages
            memory == IF BuiltRetrieval # <<>> THEN 1 ELSE 0
        IN  /\ Len(m) = 2 + memory + 1
            /\ \A k \in 1..(Len(m) - 1) : m[k].role = "system"
            /\ m[Len(m)].role = "user"

(***************************************************************************)
(* Claims about saveToIndexedDB and loadFromIndexedDB                      *)
(***************************************************************************)
\* C12: a saveToIndexedDB or loadFromIndexedDB call never rejects to its
\* caller, whether indexedDB.open, db.transaction, the get or the put fails,
\* and a call that failed left the in-memory store and the configuration as
\* they were.
C12_FailSoft ==
    lastPersist.op # "none" =>
        /\ ~lastPersist.rejected
        /\ lastPersist.failed => lastPersist.after = lastPersist.before

\* C12 witness: a load whose get fails while a saved record differs from the
\* non-empty in-memory store.
C12_Witness ==
    /\ lastPersist.op = "load"
    /\ lastPersist.failed
    /\ lastPersist.point = "get"
    /\ idb.present
    /\ lastPersist.before.store # <<>>
    /\ idb.embeddings # lastPersist.before.store

\* C13: a loadFromIndexedDB that finds the saved record makes the in-memory
\* store equal to the record's embeddings, so no earlier entry survives unless
\* the record holds it; a load that finds no record leaves the in-memory store
\* as it was.
C13_LoadReplaces ==
    (lastPersist.op = "load" /\ ~lastPersist.failed) =>
        /\ lastPersist.found => lastPersist.after.store = lastPersist.blob
        /\ ~lastPersist.found => lastPersist.after.store = lastPersist.before.store

\* C13 witness: a load replaces a non-empty in-memory store by a non-empty
\* record that lacks one of its entries.
C13_Witness ==
    /\ lastPersist.op = "load"
    /\ ~lastPersist.failed
    /\ lastPersist.found
    /\ lastPersist.blob # <<>>
    /\ conversationEmbeddings = lastPersist.blob
    /\ \E i \in 1..Len(lastPersist.before.store) :
          \A j \in 1..Len(lastPersist.blob) :
              lastPersist.blob[j] # lastPersist.before.store[i]

\* C14: a loadFromIndexedDB called after a saveToIndexedDB returned, with no
\* other save since and the save's transaction committed, restores the store
\* as it was when that save was called, whatever addConversation or clear did
\* in the meantime.
C14_RoundTrip ==
    (lastPersist.op = "load" /\ ~lastPersist.failed /\ lastPersist.afterSave) =>
        /\ lastPersist.found
        /\ lastPersist.after.store = lastPersist.savedStore

(***************************************************************************)
(* Claims about the similarity as a function                               *)
(***************************************************************************)
BothSparse == similarity.vec1.rep = "object" /\ similarity.vec2.rep = "object"

BothDense == similarity.vec1.rep = "array" /\ similarity.vec2.rep = "array"

\* C15: for two sparse vectors and for two dense vectors, of equal or of
\* different lengths, calculateCosineSimilarity(a, b) gives the same result
\* as calculateCosineSimilarity(b, a).
C15_Symmetric ==
    (similarity.called /\ (BothSparse \/ BothDense)) =>
        similarity.value = calculateCosineSimilarity(similarity.vec2, similarity.vec1)

\* C15 witness: dense vectors of lengths 2 and 3 with a similarity other than 0.
C15_Witness ==
    /\ similarity.called
    /\ BothDense
    /\ Len(similarity.vec1.arr) = 2 /\ Len(similarity.vec2.arr) = 3
    /\ similarity.value.num # 0
    /\ similarity.value = calculateCosineSimilarity(similarity.vec2, similarity.vec1)

\* C16: for every pair of arguments calculateCosineSimilarity returns a
\* number between 0 and 1: with the result num / sqrt(den2), num is not
\* negative and num * num is at most den2.
C16_RangeZeroOne ==
    similarity.called =>
        /\ similarity.value.den2 > 0
        /\ similarity.value.num >= 0
        /\ similarity.value.num * similarity.value.num <= similarity.value.den2

(***************************************************************************)
(* Claims about createKeywordVector                                        *)
(***************************************************************************)
\* C17: for every text createKeywordVector returns a mapping with at most 20
\* keys; each key is a word of the text of two or more characters, and its
\* value is a positive integer, the number of times the word occurs in the
\* text, whatever the word is.
C17_KeywordCounts ==
    keywordVector.called =>
        LET m     == keywordVector.vector.map
            words == MatchWords(keywordVector.text)
        IN  /\ keywordVector.vector.rep = "object"
            /\ Cardinality(DOMAIN m) <= TopKeywords
            /\ \A k \in DOMAIN m :
                  /\ Len(k) >= 2
                  /\ \E i \in 1..Len(words) : words[i] = k
                  /\ m[k] > 0
                  /\ m[k] = WordCount(words, k)

(***************************************************************************)
(* Claims about the entries of the store over time                         *)
(***************************************************************************)
HasTurn(store, t) == \E i \in 1..Len(store) : store[i].turnIndex = t

\* C18: a turnIndex that is in the store is still in the store after every
\* step other than clear: no step of an upsert, neither its suspension at the
\* vectorization await nor its failure after the removal of the old entry,
\* leaves the turn absent.
C18_TurnNeverAbsent ==
    [][clear \/ \A t \in TurnIndexes :
                   HasTurn(conversationEmbeddings, t) => HasTurn(conversationEmbeddings', t)]_vars

\* C19: in every reachable state, whatever calls are suspended, each entry of
\* the store has a defined vector, and its vectorType is 'dense' exactly when
\* the vector is an array and 'sparse' otherwise.
C19_TaggedAfterVectorization ==
    \A i \in 1..Len(conversationEmbeddings) :
        LET entry == conversationEmbeddings[i]
        IN  /\ ~Falsy(entry.vector)
            /\ entry.vectorType \in {"dense", "sparse"}
            /\ entry.vectorType = "dense" <=> IsArray(entry.vector)

\* C19 witness: a dense and a sparse entry are in the store while another
\* call is suspended at its vectorization.
C19_Witness ==
    /\ tasks # EmptyBag
    /\ \E i \in 1..Len(conversationEmbeddings) :
          /\ conversationEmbeddings[i].vectorType = "dense"
          /\ conversationEmbeddings[i].vector.arr # <<>>
    /\ \E i \in 1..Len(conversationEmbeddings) :
          /\ conversationEmbeddings[i].vectorType = "sparse"
          /\ conversationEmbeddings[i].vector.rep = "object"

(***************************************************************************)
(* Claims about retrieval and the backends                                 *)
(***************************************************************************)
\* the store the same addConversation calls build under the lexical backend:
\* the same entries in the same order, each with the keyword vector of its text
KeywordStore(store) ==
    [i \in 1..Len(store) |->
        [store[i] EXCEPT
            !.vector = createKeywordVector(CombinedText(store[i].userMessage,
                                                        store[i].aiResponse)),
            !.vectorType = "sparse"]]

\* C20: whatever backend vectorized the entries, and whether or not its call
\* failed, retrieveRelevantContext returns the turns, similarities and order
\* it returns on the store that the lexical backend builds from the same
\* calls.
C20_BackendIndependent ==
    retrieval.called =>
        retrieval.relevantChunks =
            retrieveRelevantContext(KeywordStore(conversationEmbeddings),
                                    minSimilarityThreshold, maxRetrieveCount,
                                    retrieval.currentInput,
                                    retrieval.recentHistory).relevantChunks

(***************************************************************************)
(* Claims about the order of the entries in the store                      *)
(***************************************************************************)
\* the stores that hold the entries of store in another physical order
Reorderings(store) ==
    LET n == Len(store)
    IN  {[i \in 1..n |-> store[p[i]]] :
            p \in {q \in [1..n -> 1..n] : \A i, j \in 1..n : q[i] = q[j] => i = j}}

TurnsOf(chunks) == {chunks[i].turnIndex : i \in 1..Len(chunks)}

\* C21: for every query, maxRetrieveCount and minSimilarityThreshold,
\* retrieveRelevantContext returns the same set of turns on every store that
\* holds the same entries in another physical order, also when turns of
\* equal similarity meet at the maxRetrieveCount cut-off.
C21_OrderIrrelevant ==
    retrieval.called =>
        \A other \in Reorderings(conversationEmbeddings) :
            TurnsOf(retrieveRelevantContext(other, minSimilarityThreshold,
                                            maxRetrieveCount, retrieval.currentInput,
                                            retrieval.recentHistory).relevantChunks)
                = ReturnedTurns

(***************************************************************************)
(* Claims about concurrent insertions                                      *)
(***************************************************************************)
TurnEntries(store, turnIndex) ==
    SelectSeq(store, LAMBDA entry : entry.turnIndex = turnIndex)

BatchDone == batch.called # {} /\ tasks = EmptyBag

\* C22: once every call of a group of concurrent addConversation calls with
\* pairwise different turn indices has completed, with no clear and no load
\* in between, the store holds exactly one entry for each turn index of the
\* group and, unchanged, the entries of every other turn index that were
\* there before: no insertion is lost, whatever the interleaving was.
C22_NoInsertionLost ==
    BatchDone =>
        \A turnIndex \in batch.called \cup TurnsOf(batch.base) \cup TurnsOf(conversationEmbeddings) :
            IF turnIndex \in batch.called
            THEN Len(TurnEntries(conversationEmbeddings, turnIndex)) = 1
            ELSE TurnEntries(conversationEmbeddings, turnIndex)
                     = TurnEntries(batch.base, turnIndex)

====
